---------------------------- MODULE Spec2Model ----------------------------
(***************************************************************************)
(* Model of the ESP32 display controller of src/sketch/sketch.ino: the     *)
(* I2C chunk reassembly (onI2CReceive, isJsonComplete), the decoder and    *)
(* change detector (processI2CData, calculateDataHash) and the refresh     *)
(* scheduler (loop, updateDisplay).                                        *)
(*                                                                         *)
(* Scale.  Bytes are naturals 0..255.  The wire text is JSON with the      *)
(* punctuation that carries no structure (':' ',' and the quotes around    *)
(* keys) left out and every key shortened to one lower-case letter, so a   *)
(* whole message is 20..50 bytes instead of 700.  The sizes of the code    *)
(* are scaled with it (buffer 2048 -> I2C_BUFFER_SIZE, thresholds 20 and   *)
(* 50 -> MIN_JSON_LEN and MIN_PROCESS_LEN, six events -> MAX_EVENTS, the   *)
(* char arrays -> *_SIZE) and keep their order.  The clock counts ticks of *)
(* ten seconds; the refresh interval is scaled down to a few ticks.  The   *)
(* fingerprint keeps its 32 bits.                                          *)
(***************************************************************************)
EXTENDS Integers, Sequences, FiniteSets, TLC

(***************************************************************************)
(* Bytes of the wire text.                                                 *)
(***************************************************************************)
Ascii == [lbrace |-> 123, rbrace |-> 125, lbrack |-> 91, rbrack |-> 93,
          quote |-> 34, zero |-> 48, nine |-> 57, a |-> 97, z |-> 122]

\* the keys of the message schema, one letter each
Key == [weather |-> 119, current_temperature |-> 99, tomorrow_min |-> 109,
        tomorrow_max |-> 120, tomorrow_description |-> 100, location |-> 108,
        events |-> 101, title |-> 105, valid |-> 118, event_count |-> 110,
        timestamp |-> 116, data_hash |-> 104]

\* the register byte the bus master puts in front of every chunk
REGISTER_BYTE == 0

Min(a, b) == IF a < b THEN a ELSE b

(***************************************************************************)
(* Sizes (scaled, see the head of the module).                             *)
(***************************************************************************)
I2C_BUFFER_SIZE == 48
MIN_JSON_LEN == 8
MIN_PROCESS_LEN == 20
MAX_EVENTS == 2
DESC_SIZE == 2
LOC_SIZE == 3
TITLE_SIZE == 3
RECEIVED_HASH_SIZE == 3

Zeros(n) == [i \in 1..n |-> 0]

(***************************************************************************)
(* strncpy(dst, src, size - 1) into a char array of `size` bytes that is   *)
(* zero in its last byte: the first size-1 bytes of src, zero padded.      *)
(***************************************************************************)
Strncpy(src, size) ==
    [i \in 1..size |-> IF i <= Len(src) /\ i <= size - 1 THEN src[i] ELSE 0]

(***************************************************************************)
(* deserializeJson and the JsonVariant accessors (ArduinoJson).            *)
(* A value is a number (one digit), a string, an object or an array; the   *)
(* parser reads one value and ignores what follows it.                     *)
(***************************************************************************)
Null == [t |-> "null"]
ParseError == [ok |-> FALSE, v |-> Null, i |-> 0]
ParseOk(v, i) == [ok |-> TRUE, v |-> v, i |-> i]

IsDigit(b) == b >= Ascii.zero /\ b <= Ascii.nine
IsKeyByte(b) == b >= Ascii.a /\ b <= Ascii.z

\* index of the first quote at or after i, 0 when there is none
RECURSIVE StringEnd(_, _)
StringEnd(s, i) ==
    IF i > Len(s) THEN 0
    ELSE IF s[i] = Ascii.quote THEN i
    ELSE StringEnd(s, i + 1)

RECURSIVE ParseValue(_, _), ParseMembers(_, _, _), ParseElements(_, _, _)
ParseValue(s, i) ==
    IF i > Len(s) THEN ParseError
    ELSE IF IsDigit(s[i]) THEN ParseOk([t |-> "num", n |-> s[i] - Ascii.zero], i + 1)
    ELSE IF s[i] = Ascii.quote THEN
        LET j == StringEnd(s, i + 1)
        IN  IF j = 0 THEN ParseError
            ELSE ParseOk([t |-> "str", s |-> SubSeq(s, i + 1, j - 1)], j + 1)
    ELSE IF s[i] = Ascii.lbrace THEN ParseMembers(s, i + 1, <<>>)
    ELSE IF s[i] = Ascii.lbrack THEN ParseElements(s, i + 1, <<>>)
    ELSE ParseError

ParseMembers(s, i, acc) ==
    IF i > Len(s) THEN ParseError
    ELSE IF s[i] = Ascii.rbrace THEN ParseOk([t |-> "obj", m |-> acc], i + 1)
    ELSE IF ~IsKeyByte(s[i]) THEN ParseError
    ELSE LET r == ParseValue(s, i + 1)
         IN  IF ~r.ok THEN ParseError
             ELSE ParseMembers(s, r.i, Append(acc, [k |-> s[i], v |-> r.v]))

ParseElements(s, i, acc) ==
    IF i > Len(s) THEN ParseError
    ELSE IF s[i] = Ascii.rbrack THEN ParseOk([t |-> "arr", a |-> acc], i + 1)
    ELSE LET r == ParseValue(s, i)
         IN  IF ~r.ok THEN ParseError
             ELSE ParseElements(s, r.i, Append(acc, r.v))

deserializeJson(clean) == ParseValue(clean, 1)

\* doc[key]: null for a value that is no object or has no such member
Member(v, key) ==
    IF v.t # "obj" THEN Null
    ELSE LET hits == {j \in 1..Len(v.m) : v.m[j].k = key}
         IN  IF hits = {} THEN Null
             ELSE v.m[CHOOSE j \in hits : \A h \in hits : j <= h].v

\* array[i], i from 0: null outside the array
Element(v, i) ==
    IF v.t = "arr" /\ i + 1 <= Len(v.a) THEN v.a[i + 1] ELSE Null

IsNull(v) == v.t = "null"
AsNumber(v) == IF v.t = "num" THEN v.n ELSE 0
AsBool(v) == v.t = "num" /\ v.n # 0
\* variant | default, for strings
AsString(v, default) == IF v.t = "str" THEN v.s ELSE default

\* "No forecast", scaled to one character
NO_FORECAST == <<78>>


(***************************************************************************)
(* DisplayData.  The fields kept are one of each kind the decoder treats   *)
(* alike: a number and a text of the weather, the optional forecast, the   *)
(* events with a text and a flag, the count, the two fingerprints and the  *)
(* message timestamp, in the order of the struct.                          *)
(***************************************************************************)
ZeroWeather ==
    [current_temperature |-> 0, tomorrow_min |-> 0, tomorrow_max |-> 0,
     tomorrow_description |-> Zeros(DESC_SIZE), has_tomorrow_data |-> FALSE,
     location |-> Zeros(LOC_SIZE)]

ZeroEvent == [title |-> Zeros(TITLE_SIZE), valid |-> FALSE]

\* memset(&data, 0, sizeof(DisplayData))
ZeroData ==
    [weather |-> ZeroWeather,
     events |-> [i \in 1..MAX_EVENTS |-> ZeroEvent],
     event_count |-> 0,
     data_hash |-> Zeros(4),
     received_hash |-> Zeros(RECEIVED_HASH_SIZE),
     timestamp |-> 0]

\* strcpy(currentData.received_hash, "initial"), cut to the scaled array
INITIAL_HASH == <<105, 110, 0>>
\* strcpy(previousData.received_hash, "none"), cut to the scaled array
NONE_HASH == <<110, 111, 0>>

(***************************************************************************)
(* The bytes of a DisplayData in memory, in layout order (little endian).  *)
(***************************************************************************)
BoolByte(b) == IF b THEN 1 ELSE 0
U32Bytes(n) == <<n % 256, (n \div 256) % 256, (n \div 65536) % 256, n \div 16777216>>

WeatherBytes(w) ==
    <<w.current_temperature, w.tomorrow_min, w.tomorrow_max>>
    \o w.tomorrow_description \o <<BoolByte(w.has_tomorrow_data)>> \o w.location

EventBytes(e) == e.title \o <<BoolByte(e.valid)>>

RECURSIVE EventsBytes(_, _)
EventsBytes(events, i) ==
    IF i > MAX_EVENTS THEN <<>> ELSE EventBytes(events[i]) \o EventsBytes(events, i + 1)

StructBytes(d) ==
    WeatherBytes(d.weather) \o EventsBytes(d.events, 1) \o <<d.event_count>>
    \o d.data_hash \o d.received_hash \o U32Bytes(d.timestamp)

(***************************************************************************)
(* calculateDataHash: hash = hash * 31 + byte over the first               *)
(* sizeof(DisplayData) - sizeof(uint32_t) bytes, in uint32_t.  The 32 bits *)
(* are kept as two 16 bit halves <<high, low>>.                            *)
(***************************************************************************)
HashStep(h, b) ==
    LET low == h[2] * 31 + b
    IN  <<(h[1] * 31 + low \div 65536) % 65536, low % 65536>>

RECURSIVE HashFold(_, _, _, _)
HashFold(bytes, i, n, h) ==
    IF i > n THEN h ELSE HashFold(bytes, i + 1, n, HashStep(h, bytes[i]))

\* a fingerprint over the decoded content only: it stops before data_hash
HashedContentOnly(d) == Len(StructBytes(d)) - 4 - RECEIVED_HASH_SIZE - 4
HashedLength(d) == Len(StructBytes(d)) - 4

calculateDataHash(d) ==
    LET h == HashFold(StructBytes(d), 1, HashedLength(d), <<0, 0>>)
    IN  <<h[2] % 256, h[2] \div 256, h[1] % 256, h[1] \div 256>>


(***************************************************************************)
(* isJsonComplete over the first `total` bytes of the buffer.              *)
(***************************************************************************)
RECURSIVE ScanBraces(_, _, _, _, _)
ScanBraces(buf, i, total, foundStart, braceCount) ==
    IF i > total THEN FALSE
    ELSE IF buf[i] = REGISTER_BYTE THEN ScanBraces(buf, i + 1, total, foundStart, braceCount)
    ELSE IF buf[i] = Ascii.lbrace THEN ScanBraces(buf, i + 1, total, TRUE, braceCount + 1)
    ELSE IF buf[i] = Ascii.rbrace /\ foundStart THEN
        IF braceCount - 1 = 0 THEN TRUE
        ELSE ScanBraces(buf, i + 1, total, foundStart, braceCount - 1)
    ELSE ScanBraces(buf, i + 1, total, foundStart, braceCount)

isJsonComplete(buf, total) ==
    IF total < MIN_JSON_LEN THEN FALSE ELSE ScanBraces(buf, 1, total, FALSE, 0)

(***************************************************************************)
(* processI2CData, first part: the clean buffer, the raw bytes without the *)
(* register bytes.                                                         *)
(***************************************************************************)
\* a clean copy that drops the register byte at the head of the frame only
RECURSIVE CleanBytesHeadOnly(_, _, _)
CleanBytesHeadOnly(buf, i, length) ==
    IF i > length THEN <<>>
    ELSE IF i = 1 /\ buf[i] = REGISTER_BYTE THEN CleanBytesHeadOnly(buf, i + 1, length)
    ELSE <<buf[i]>> \o CleanBytesHeadOnly(buf, i + 1, length)

\* a clean copy that keeps the 0x00 bytes of the frame
CleanBytesKeepsAll(buf, i, length) ==
    SubSeq(buf, i, length)

RECURSIVE CleanBytes(_, _, _)
CleanBytes(buf, i, length) ==
    IF i > length THEN <<>>
    ELSE IF buf[i] = REGISTER_BYTE THEN CleanBytes(buf, i + 1, length)
    ELSE <<buf[i]>> \o CleanBytes(buf, i + 1, length)

(***************************************************************************)
(* processI2CData, second part: the fields of currentData read from the    *)
(* parsed document.  Events at and beyond event_count are not written.     *)
(***************************************************************************)
\* a decoder that takes the forecast as present when tomorrow_min is
ExtractWeatherByMinOnly(w) ==
    LET noTomorrow == IsNull(Member(w, Key.tomorrow_min))
    IN  [current_temperature |-> AsNumber(Member(w, Key.current_temperature)),
         has_tomorrow_data |-> ~noTomorrow,
         tomorrow_min |-> IF noTomorrow THEN 0 ELSE AsNumber(Member(w, Key.tomorrow_min)),
         tomorrow_max |-> IF noTomorrow THEN 0 ELSE AsNumber(Member(w, Key.tomorrow_max)),
         tomorrow_description |->
             IF noTomorrow THEN Strncpy(NO_FORECAST, DESC_SIZE)
             ELSE Strncpy(AsString(Member(w, Key.tomorrow_description), NO_FORECAST), DESC_SIZE),
         location |-> Strncpy(AsString(Member(w, Key.location), <<>>), LOC_SIZE)]

ExtractWeather(w) ==
    LET noTomorrow == IsNull(Member(w, Key.tomorrow_min)) \/ IsNull(Member(w, Key.tomorrow_max))
    IN  [current_temperature |-> AsNumber(Member(w, Key.current_temperature)),
         has_tomorrow_data |-> ~noTomorrow,
         tomorrow_min |-> IF noTomorrow THEN 0 ELSE AsNumber(Member(w, Key.tomorrow_min)),
         tomorrow_max |-> IF noTomorrow THEN 0 ELSE AsNumber(Member(w, Key.tomorrow_max)),
         tomorrow_description |->
             IF noTomorrow THEN Strncpy(NO_FORECAST, DESC_SIZE)
             ELSE Strncpy(AsString(Member(w, Key.tomorrow_description), NO_FORECAST), DESC_SIZE),
         location |-> Strncpy(AsString(Member(w, Key.location), <<>>), LOC_SIZE)]

ExtractEvent(e) ==
    [title |-> Strncpy(AsString(Member(e, Key.title), <<>>), TITLE_SIZE),
     valid |-> AsBool(Member(e, Key.valid))]

\* an event_count stored as the payload gives it
KeepEventCount(n) == n

ClampEventCount(n) == IF n > MAX_EVENTS THEN MAX_EVENTS ELSE n

ExtractData(doc, cur) ==
    LET count == ClampEventCount(AsNumber(Member(doc, Key.event_count)))
        events == Member(doc, Key.events)
    IN  [weather |-> ExtractWeather(Member(doc, Key.weather)),
         event_count |-> count,
         events |-> [i \in 1..MAX_EVENTS |->
                        IF i - 1 < count THEN ExtractEvent(Element(events, i - 1))
                        ELSE cur.events[i]],
         timestamp |-> AsNumber(Member(doc, Key.timestamp)),
         received_hash |-> Strncpy(AsString(Member(doc, Key.data_hash), <<>>), RECEIVED_HASH_SIZE),
         data_hash |-> cur.data_hash]

(***************************************************************************)
(* processI2CData as a function of what it reads: the buffer, the length,  *)
(* the two records and the counters.  `branch` names the path taken.       *)
(***************************************************************************)
DecodeState(cur, prev, needsUpdate, received, skipped, branch) ==
    [currentData |-> cur, previousData |-> prev, displayNeedsUpdate |-> needsUpdate,
     dataReceived |-> received, skippedUpdates |-> skipped, branch |-> branch]

\* a decoder that adopts whatever the extraction gives when the text does not parse
processI2CDataAdoptsPartial(buf, length, cur, prev, needsUpdate, received, skipped) ==
    IF length < MIN_PROCESS_LEN
    THEN DecodeState(cur, prev, needsUpdate, received, skipped, "insufficient")
    ELSE
    LET parsed == deserializeJson(CleanBytes(buf, 1, length))
        data == ExtractData(parsed.v, cur)
        stored == [data EXCEPT !.data_hash = calculateDataHash(data)]
    IN  DecodeState(stored, stored, TRUE, TRUE, skipped,
                    IF parsed.ok THEN "changed" ELSE "malformed")

\* a detector that reports a change only when both fingerprints differ
processI2CDataBothDiffer(buf, length, cur, prev, needsUpdate, received, skipped) ==
    IF length < MIN_PROCESS_LEN
    THEN DecodeState(cur, prev, needsUpdate, received, skipped, "insufficient")
    ELSE
    LET parsed == deserializeJson(CleanBytes(buf, 1, length))
        data == ExtractData(parsed.v, cur)
        stored == [data EXCEPT !.data_hash = calculateDataHash(data)]
    IN  IF ~parsed.ok
        THEN DecodeState(cur, prev, needsUpdate, received, skipped, "malformed")
        ELSE IF stored.data_hash # prev.data_hash /\ data.received_hash # prev.received_hash
        THEN DecodeState(stored, stored, TRUE, TRUE, skipped, "changed")
        ELSE DecodeState(stored, prev, needsUpdate, TRUE, skipped + 1, "unchanged")

\* a detector that copies the record into previousData on every accepted decode
processI2CDataTracksCurrent(buf, length, cur, prev, needsUpdate, received, skipped) ==
    IF length < MIN_PROCESS_LEN
    THEN DecodeState(cur, prev, needsUpdate, received, skipped, "insufficient")
    ELSE
    LET parsed == deserializeJson(CleanBytes(buf, 1, length))
        data == ExtractData(parsed.v, cur)
        stored == [data EXCEPT !.data_hash = calculateDataHash(data)]
    IN  IF ~parsed.ok
        THEN DecodeState(cur, prev, needsUpdate, received, skipped, "malformed")
        ELSE IF stored.data_hash # prev.data_hash \/ data.received_hash # prev.received_hash
        THEN DecodeState(stored, stored, TRUE, TRUE, skipped, "changed")
        ELSE DecodeState(stored, stored, needsUpdate, TRUE, skipped + 1, "unchanged")

\* a decoder without the minimum length
processI2CDataAnyLength(buf, length, cur, prev, needsUpdate, received, skipped) ==
    LET parsed == deserializeJson(CleanBytes(buf, 1, length))
        data == ExtractData(parsed.v, cur)
        stored == [data EXCEPT !.data_hash = calculateDataHash(data)]
    IN  IF ~parsed.ok
        THEN DecodeState(cur, prev, needsUpdate, received, skipped, "malformed")
        ELSE DecodeState(stored, stored, TRUE, TRUE, skipped, "changed")

\* a decoder without 'currentData.data_hash = newHash;': currentData keeps the
\* fingerprint of the decode before
processI2CDataKeepsCurrentHash(buf, length, cur, prev, needsUpdate, received, skipped) ==
    IF length < MIN_PROCESS_LEN
    THEN DecodeState(cur, prev, needsUpdate, received, skipped, "insufficient")
    ELSE
    LET parsed == deserializeJson(CleanBytes(buf, 1, length))
    IN  IF ~parsed.ok
        THEN DecodeState(cur, prev, needsUpdate, received, skipped, "malformed")
        ELSE
        LET data == ExtractData(parsed.v, cur)
            newHash == calculateDataHash(data)
            localHashChanged == newHash # prev.data_hash
            receivedHashChanged == data.received_hash # prev.received_hash
            stored == [data EXCEPT !.data_hash = newHash]
        IN  IF localHashChanged \/ receivedHashChanged
            THEN DecodeState(data, stored, TRUE, TRUE, skipped, "changed")
            ELSE DecodeState(data, prev, needsUpdate, TRUE, skipped + 1, "unchanged")

\* a decoder that takes the first record after setup() as nothing new
processI2CDataSkipsFirst(buf, length, cur, prev, needsUpdate, received, skipped) ==
    IF length < MIN_PROCESS_LEN
    THEN DecodeState(cur, prev, needsUpdate, received, skipped, "insufficient")
    ELSE
    LET parsed == deserializeJson(CleanBytes(buf, 1, length))
    IN  IF ~parsed.ok
        THEN DecodeState(cur, prev, needsUpdate, received, skipped, "malformed")
        ELSE
        LET data == ExtractData(parsed.v, cur)
            newHash == calculateDataHash(data)
            localHashChanged == newHash # prev.data_hash
            receivedHashChanged == data.received_hash # prev.received_hash
            stored == [data EXCEPT !.data_hash = newHash]
        IN  IF (localHashChanged \/ receivedHashChanged) /\ received
            THEN DecodeState(stored, stored, TRUE, TRUE, skipped, "changed")
            ELSE DecodeState(stored, prev, needsUpdate, TRUE, skipped + 1, "unchanged")

\* a decoder without 'previousData.data_hash = newHash;': the copy keeps the
\* fingerprint currentData had before the decode
processI2CDataCopiesOldHash(buf, length, cur, prev, needsUpdate, received, skipped) ==
    IF length < MIN_PROCESS_LEN
    THEN DecodeState(cur, prev, needsUpdate, received, skipped, "insufficient")
    ELSE
    LET parsed == deserializeJson(CleanBytes(buf, 1, length))
    IN  IF ~parsed.ok
        THEN DecodeState(cur, prev, needsUpdate, received, skipped, "malformed")
        ELSE
        LET data == ExtractData(parsed.v, cur)
            newHash == calculateDataHash(data)
            localHashChanged == newHash # prev.data_hash
            receivedHashChanged == data.received_hash # prev.received_hash
            stored == [data EXCEPT !.data_hash = newHash]
        IN  IF localHashChanged \/ receivedHashChanged
            THEN DecodeState(stored, data, TRUE, TRUE, skipped, "changed")
            ELSE DecodeState(stored, prev, needsUpdate, TRUE, skipped + 1, "unchanged")

processI2CData(buf, length, cur, prev, needsUpdate, received, skipped) ==
    IF length < MIN_PROCESS_LEN
    THEN DecodeState(cur, prev, needsUpdate, received, skipped, "insufficient")
    ELSE
    LET parsed == deserializeJson(CleanBytes(buf, 1, length))
    IN  IF ~parsed.ok
        THEN DecodeState(cur, prev, needsUpdate, received, skipped, "malformed")
        ELSE
        LET data == ExtractData(parsed.v, cur)
            newHash == calculateDataHash(data)
            localHashChanged == newHash # prev.data_hash
            receivedHashChanged == data.received_hash # prev.received_hash
            stored == [data EXCEPT !.data_hash = newHash]
        IN  IF localHashChanged \/ receivedHashChanged
            THEN DecodeState(stored, stored, TRUE, TRUE, skipped, "changed")
            ELSE DecodeState(stored, prev, needsUpdate, TRUE, skipped + 1, "unchanged")


(***************************************************************************)
(* The sender (the host on the bus): the messages it may send and their    *)
(* wire text.  A message is sent as chunks of `size` payload bytes, each   *)
(* behind one register byte.                                               *)
(***************************************************************************)
Digit(n) == Ascii.zero + n
Quoted(str) == <<Ascii.quote>> \o str \o <<Ascii.quote>>

EncodeEvent(e) ==
    <<Ascii.lbrace, Key.title>> \o Quoted(e.title) \o <<Key.valid, Digit(e.valid), Ascii.rbrace>>

RECURSIVE EncodeEvents(_, _)
EncodeEvents(events, i) ==
    IF i > Len(events) THEN <<>> ELSE EncodeEvent(events[i]) \o EncodeEvents(events, i + 1)

\* tomorrow is <<>> (no forecast), <<min>> (no tomorrow_max) or <<min, max>>; hash is <<>> when the sender gives none
Encode(m) ==
    <<Ascii.lbrace, Key.weather, Ascii.lbrace, Key.current_temperature, Digit(m.temp)>>
    \o (IF m.tomorrow = <<>> THEN <<>>
        ELSE IF Len(m.tomorrow) = 1 THEN <<Key.tomorrow_min, Digit(m.tomorrow[1])>>
        ELSE <<Key.tomorrow_min, Digit(m.tomorrow[1]), Key.tomorrow_max, Digit(m.tomorrow[2])>>)
    \o <<Key.location>> \o Quoted(m.location) \o <<Ascii.rbrace>>
    \o <<Key.events, Ascii.lbrack>> \o EncodeEvents(m.events, 1) \o <<Ascii.rbrack>>
    \o <<Key.event_count, Digit(m.count), Key.timestamp, Digit(m.timestamp)>>
    \o (IF m.hash = <<>> THEN <<>> ELSE <<Key.data_hash>> \o Quoted(m.hash))
    \o <<Ascii.rbrace>>

Message(temp, tomorrow, location, events, count, timestamp, hash) ==
    [temp |-> temp, tomorrow |-> tomorrow, location |-> location, events |-> events,
     count |-> count, timestamp |-> timestamp, hash |-> hash]

Event(title, valid) == [title |-> title, valid |-> valid]

\* the base message and messages that differ from it in one field each
BaseMessage == Message(5, <<>>, <<65, 66>>, <<Event(<<88, 89>>, 1)>>, 1, 7, <<113, 113>>)

Messages ==
    << BaseMessage,
       [BaseMessage EXCEPT !.temp = 6],
       [BaseMessage EXCEPT !.location = <<65, 67>>],
       [BaseMessage EXCEPT !.events = <<Event(<<88, 90>>, 1)>>],
       [BaseMessage EXCEPT !.events = <<Event(<<88, 89>>, 0)>>],
       [BaseMessage EXCEPT !.count = 0],
       [BaseMessage EXCEPT !.timestamp = 8],
       [BaseMessage EXCEPT !.tomorrow = <<1, 2>>],
       [BaseMessage EXCEPT !.tomorrow = <<1, 3>>],
       \* a title that holds a closing brace
       [BaseMessage EXCEPT !.events = <<Event(<<125, 89>>, 1)>>],
       \* two events
       [BaseMessage EXCEPT !.events = <<Event(<<88, 89>>, 1), Event(<<90, 90>>, 1)>>,
                            !.count = 2],
       \* more events than the record holds, and an event_count that says so
       [BaseMessage EXCEPT !.events = <<Event(<<88>>, 1), Event(<<>>, 1), Event(<<90>>, 1)>>,
                            !.count = 3],
       \* tomorrow_min without tomorrow_max
       [BaseMessage EXCEPT !.tomorrow = <<4>>] >>

\* frames that are no message: text that balances its braces and does not parse,
\* and a message that parses and is shorter than the decoder accepts
MalformedFrame ==
    <<Ascii.lbrace, Key.weather, Ascii.lbrace, Key.current_temperature, Digit(5),
      Ascii.rbrace, Key.events, Ascii.lbrack, Ascii.lbrace, Key.title, Ascii.quote, 88, 89,
      Key.valid, Digit(1), Ascii.rbrace, Ascii.rbrack, Key.event_count, Digit(1),
      Key.timestamp, Digit(7), Ascii.rbrace>>

ShortFrame ==
    <<Ascii.lbrace, Key.weather, Ascii.lbrace, Key.current_temperature, Digit(5),
      Ascii.rbrace, Key.event_count, Digit(0), Key.timestamp, Digit(7), Ascii.rbrace>>

BadFrames == <<MalformedFrame, ShortFrame>>
MALFORMED == Len(Messages) + 1
SHORT == Len(Messages) + 2

\* messages whose fingerprint, computed when they follow the base message, is the
\* fingerprint of the base message: with the sender's data_hash of the base message,
\* with another one, and with none
CollidingMessages ==
    << Message(2, <<>>, <<241, 234>>, <<Event(<<168, 122>>, 1)>>, 1, 7, <<113, 113>>),
       Message(4, <<>>, <<69, 244>>, <<Event(<<12, 99>>, 1)>>, 1, 7, <<113, 98>>),
       Message(6, <<0, 2>>, <<39, 242>>, <<Event(<<43, 235>>, 0)>>, 1, 7, <<>>) >>
SAME_HASHES == Len(Messages) + Len(BadFrames) + 1
SAME_LOCAL_HASH == Len(Messages) + Len(BadFrames) + 2
SAME_LOCAL_NO_HASH == Len(Messages) + Len(BadFrames) + 3

Payload(m) ==
    IF m <= Len(Messages) THEN Encode(Messages[m])
    ELSE IF m <= Len(Messages) + Len(BadFrames) THEN BadFrames[m - Len(Messages)]
    ELSE Encode(CollidingMessages[m - Len(Messages) - Len(BadFrames)])

\* the chunk that carries payload bytes pos+1 .. pos+size of message m
Chunk(m, pos, size) ==
    <<REGISTER_BYTE>> \o SubSeq(Payload(m), pos + 1, Min(pos + size, Len(Payload(m))))

\* all the wire bytes of message m up to payload position pos, in chunks of size
RECURSIVE WireBytes(_, _, _, _)
WireBytes(m, from, pos, size) ==
    IF from >= pos THEN <<>>
    ELSE Chunk(m, from, size) \o WireBytes(m, from + size, pos, size)


(***************************************************************************)
(* Time, in ticks of ten seconds.                                          *)
(***************************************************************************)
\* 15000 ms: "millis() - lastReceiveTime > 15000" is "more than one tick"
RECEIVE_TIMEOUT == 1
\* 1800000 ms, scaled down
DISPLAY_UPDATE_INTERVAL == 3
\* display.display() "may take 10-30 seconds"
MAX_RENDER_TICKS == 3

(***************************************************************************)
(* Bounds of the model.                                                    *)
(***************************************************************************)
MaxTime == 5
MaxSends == 2
MaxChunk == 3

(***************************************************************************)
(* State.                                                                  *)
(***************************************************************************)
VARIABLES
    \* globals of the sketch
    currentData, previousData, dataReceived, displayNeedsUpdate, displayInitialized,
    lastDisplayUpdate, skippedUpdates,
    i2cBuffer, i2cDataReady, i2cDataLength, totalDataReceived, receivingMultipart,
    lastReceiveTime,
    \* loop(): the statement it is at, and its local timeBasedUpdate
    pc, timeBasedUpdate,
    \* millis()
    now,
    \* the panel: what the last display.display() put on it, the number of calls,
    \* and how long the running call has taken
    panel, displayCalls, renderElapsed,
    \* the sender: message in transmission (0: none), payload bytes sent, chunk size,
    \* time of its last chunk, the messages it started
    sendMsg, sendPos, sendSize, lastSendTime, sentLog,
    \* the replies to its status requests, each with the number of frames processed
    \* when it was given
    statusReplies,
    \* history: the frames reported complete, the frames processI2CData was run on
    \* (with its outcome, the number of frames reported complete until then and the
    \* data_hash it left in currentData),
    \* whether loop() finished an iteration since the last tick or bus write,
    \* whether this iteration called display.display(), and the number of frames
    \* processed when display.display() last returned
    completed, decoded, loopRan, redrawn, renderedDecodes

i2cVars == <<i2cBuffer, i2cDataReady, i2cDataLength, totalDataReceived,
             receivingMultipart, lastReceiveTime>>
dataVars == <<currentData, previousData, dataReceived, displayNeedsUpdate, skippedUpdates>>
panelVars == <<panel, displayCalls, renderElapsed>>
senderVars == <<sendMsg, sendPos, sendSize, lastSendTime, sentLog, statusReplies>>
historyVars == <<completed, decoded, redrawn, renderedDecodes>>
clockVars == <<now, loopRan>>
vars == <<currentData, previousData, dataReceived, displayNeedsUpdate, displayInitialized,
          lastDisplayUpdate, skippedUpdates,
          i2cBuffer, i2cDataReady, i2cDataLength, totalDataReceived, receivingMultipart,
          lastReceiveTime, pc, timeBasedUpdate, now, panel, displayCalls, renderElapsed,
          sendMsg, sendPos, sendSize, lastSendTime, sentLog, statusReplies,
          completed, decoded, loopRan, redrawn, renderedDecodes>>

\* the panel after setup(): the startup message, or nothing without a display
StartupScreen == [screen |-> "startup"]
BlankScreen == [screen |-> "blank"]

\* setup(): the state when loop() first runs
BootData == [ZeroData EXCEPT !.received_hash = INITIAL_HASH]
BootPrevious == [ZeroData EXCEPT !.received_hash = NONE_HASH]

Init ==
    /\ currentData = BootData
    /\ previousData = BootPrevious
    /\ dataReceived = FALSE
    /\ displayNeedsUpdate = FALSE
    /\ displayInitialized \in BOOLEAN
    /\ lastDisplayUpdate = 0
    /\ skippedUpdates = 0
    /\ i2cBuffer = Zeros(I2C_BUFFER_SIZE)
    /\ i2cDataReady = FALSE
    /\ i2cDataLength = 0
    /\ totalDataReceived = 0
    /\ receivingMultipart = FALSE
    /\ lastReceiveTime = 0
    /\ pc = "check"
    /\ timeBasedUpdate = FALSE
    /\ now = 0
    /\ panel = IF displayInitialized THEN StartupScreen ELSE BlankScreen
    /\ displayCalls = 0
    /\ renderElapsed = 0
    /\ sendMsg = 0
    /\ sendPos = 0
    /\ sendSize = 0
    /\ lastSendTime = 0
    /\ sentLog = <<>>
    /\ statusReplies = <<>>
    /\ completed = <<>>
    /\ decoded = <<>>
    /\ loopRan = FALSE
    /\ redrawn = FALSE
    /\ renderedDecodes = 0

(***************************************************************************)
(* millis().  now counts the ticks since boot; the counter of the sketch   *)
(* is an unsigned long, which holds them modulo its width, and so do the   *)
(* stamps taken from it.  A stamp keeps the tick it was taken at, and the  *)
(* sketch reads it through Elapsed only, which sees what the unsigned      *)
(* variables hold.                                                         *)
(***************************************************************************)
\* the number of values of an unsigned long, scaled down to ticks
CLOCK_MOD == 8
millis == now % CLOCK_MOD

\* a difference taken as a signed number
ElapsedSigned(since) == millis - (since % CLOCK_MOD)

\* millis() - since, in unsigned arithmetic
Elapsed(since) == (millis - (since % CLOCK_MOD)) % CLOCK_MOD

(***************************************************************************)
(* onI2CReceive(length) with the bytes of one bus write.                   *)
(***************************************************************************)
\* a read loop that stores every chunk from the start of the buffer
StoreChunkAtStart(buf, total, chunk) ==
    LET bytesRead == Min(Len(chunk), I2C_BUFFER_SIZE - total)
    IN  [i \in 1..I2C_BUFFER_SIZE |-> IF i <= bytesRead THEN chunk[i] ELSE buf[i]]

\* the buffer after the while loop: bytesRead bytes stored from offset total
StoreChunk(buf, total, chunk) ==
    LET bytesRead == Min(Len(chunk), I2C_BUFFER_SIZE - total)
    IN  [i \in 1..I2C_BUFFER_SIZE |->
            IF i > total /\ i <= total + bytesRead THEN chunk[i - total] ELSE buf[i]]

\* a callback that stores the chunk and leaves the detection of the end of the
\* frame to loop()
onI2CReceiveDefersCompletion(chunk) ==
    /\ Len(chunk) > 0
    /\ LET cleared == IF totalDataReceived = 0 THEN Zeros(I2C_BUFFER_SIZE) ELSE i2cBuffer
           bytesRead == Min(Len(chunk), I2C_BUFFER_SIZE - totalDataReceived)
       IN  /\ i2cBuffer' = StoreChunk(cleared, totalDataReceived, chunk)
           /\ totalDataReceived' = totalDataReceived + bytesRead
           /\ receivingMultipart' = TRUE
           /\ lastReceiveTime' = now
           /\ UNCHANGED <<i2cDataLength, i2cDataReady, completed>>

onI2CReceive(chunk) ==
    /\ Len(chunk) > 0
    /\ LET cleared == IF totalDataReceived = 0 THEN Zeros(I2C_BUFFER_SIZE) ELSE i2cBuffer
           bytesRead == Min(Len(chunk), I2C_BUFFER_SIZE - totalDataReceived)
           total == totalDataReceived + bytesRead
           buf == StoreChunk(cleared, totalDataReceived, chunk)
       IN  /\ i2cBuffer' = buf
           /\ IF isJsonComplete(buf, total)
              THEN /\ i2cDataLength' = total
                   /\ i2cDataReady' = TRUE
                   /\ totalDataReceived' = 0
                   /\ receivingMultipart' = FALSE
                   /\ lastReceiveTime' = lastReceiveTime
                   /\ completed' = Append(completed, SubSeq(buf, 1, total))
              ELSE /\ totalDataReceived' = total
                   /\ receivingMultipart' = TRUE
                   /\ lastReceiveTime' = now
                   /\ UNCHANGED <<i2cDataLength, i2cDataReady, completed>>

(***************************************************************************)
(* The sender delivers the next chunk of its message, or starts a message: *)
(* when it has none under way, or when it gave up the one under way by     *)
(* staying silent for longer than the receive timeout.  A message given up *)
(* is not resumed.                                                         *)
(***************************************************************************)
Sending == IF sendMsg = 0 THEN FALSE ELSE sendPos < Len(Payload(sendMsg))
Stalled == Sending /\ Elapsed(lastSendTime) > RECEIVE_TIMEOUT

ContinueMessage ==
    /\ Sending
    /\ ~Stalled
    /\ onI2CReceive(Chunk(sendMsg, sendPos, sendSize))
    /\ sendPos' = Min(sendPos + sendSize, Len(Payload(sendMsg)))
    /\ lastSendTime' = now
    /\ UNCHANGED <<sendMsg, sendSize, sentLog, statusReplies>>

StartMessage(msgs, sizes, limit) ==
    /\ Len(sentLog) < limit
    /\ IF Sending THEN Stalled ELSE TRUE
    /\ \E m \in msgs, size \in sizes :
          /\ onI2CReceive(Chunk(m, 0, size))
          /\ sendMsg' = m
          /\ sendSize' = size
          /\ sendPos' = Min(size, Len(Payload(m)))
          /\ sentLog' = Append(sentLog, m)
    /\ lastSendTime' = now
    /\ UNCHANGED statusReplies

(***************************************************************************)
(* loop(), one statement at a time; a bus callback may run between any two *)
(* of them.                                                                *)
(***************************************************************************)
\* if (i2cDataReady)
CheckReady ==
    /\ pc = "check"
    /\ pc' = IF i2cDataReady THEN "process" ELSE "timeout"
    /\ UNCHANGED <<dataVars, i2cVars, senderVars, panelVars, historyVars, clockVars,
                   displayInitialized, lastDisplayUpdate, timeBasedUpdate>>

\* processI2CData();
Process ==
    /\ pc = "process"
    /\ LET r == processI2CData(i2cBuffer, i2cDataLength, currentData, previousData,
                               displayNeedsUpdate, dataReceived, skippedUpdates)
       IN  /\ currentData' = r.currentData
           /\ previousData' = r.previousData
           /\ displayNeedsUpdate' = r.displayNeedsUpdate
           /\ dataReceived' = r.dataReceived
           /\ skippedUpdates' = r.skippedUpdates
           /\ decoded' = Append(decoded, [raw |-> SubSeq(i2cBuffer, 1, i2cDataLength),
                                          branch |-> r.branch,
                                          completions |-> Len(completed),
                                          hash |-> r.currentData.data_hash])
    /\ pc' = "clear"
    /\ UNCHANGED <<i2cVars, senderVars, panelVars, completed, redrawn, renderedDecodes,
                   clockVars, displayInitialized, lastDisplayUpdate, timeBasedUpdate>>

\* i2cDataReady = false;
ClearReady ==
    /\ pc = "clear"
    /\ i2cDataReady' = FALSE
    /\ pc' = "timeout"
    /\ UNCHANGED <<dataVars, i2cBuffer, i2cDataLength, totalDataReceived, receivingMultipart,
                   lastReceiveTime, senderVars, panelVars, historyVars, clockVars,
                   displayInitialized, lastDisplayUpdate, timeBasedUpdate>>

\* if (receivingMultipart && (millis() - lastReceiveTime > 15000))
CheckTimeout ==
    /\ pc = "timeout"
    /\ pc' = IF receivingMultipart /\ Elapsed(lastReceiveTime) > RECEIVE_TIMEOUT
             THEN "recheck" ELSE "schedule"
    /\ UNCHANGED <<dataVars, i2cVars, senderVars, panelVars, historyVars, clockVars,
                   displayInitialized, lastDisplayUpdate, timeBasedUpdate>>

\* if (isJsonComplete()) { ... } else { memset(i2cBuffer, 0, sizeof(i2cBuffer)); }
TimeoutRecheck ==
    /\ pc = "recheck"
    /\ IF isJsonComplete(i2cBuffer, totalDataReceived)
       THEN /\ i2cDataLength' = totalDataReceived
            /\ i2cDataReady' = TRUE
            /\ completed' = Append(completed, SubSeq(i2cBuffer, 1, totalDataReceived))
            /\ UNCHANGED i2cBuffer
       ELSE /\ i2cBuffer' = Zeros(I2C_BUFFER_SIZE)
            /\ UNCHANGED <<i2cDataLength, i2cDataReady, completed>>
    /\ pc' = "reset"
    /\ UNCHANGED <<dataVars, totalDataReceived, receivingMultipart, lastReceiveTime,
                   senderVars, panelVars, decoded, redrawn, renderedDecodes, clockVars,
                   displayInitialized, lastDisplayUpdate, timeBasedUpdate>>

\* totalDataReceived = 0;
TimeoutReset ==
    /\ pc = "reset"
    /\ totalDataReceived' = 0
    /\ pc' = "resetflag"
    /\ UNCHANGED <<dataVars, i2cBuffer, i2cDataReady, i2cDataLength, receivingMultipart,
                   lastReceiveTime, senderVars, panelVars, historyVars, clockVars,
                   displayInitialized, lastDisplayUpdate, timeBasedUpdate>>

\* receivingMultipart = false;
TimeoutClearFlag ==
    /\ pc = "resetflag"
    /\ receivingMultipart' = FALSE
    /\ pc' = "resettime"
    /\ UNCHANGED <<dataVars, i2cBuffer, i2cDataReady, i2cDataLength, totalDataReceived,
                   lastReceiveTime, senderVars, panelVars, historyVars, clockVars,
                   displayInitialized, lastDisplayUpdate, timeBasedUpdate>>

\* lastReceiveTime = millis();
TimeoutStamp ==
    /\ pc = "resettime"
    /\ lastReceiveTime' = now
    /\ pc' = "schedule"
    /\ UNCHANGED <<dataVars, i2cBuffer, i2cDataReady, i2cDataLength, totalDataReceived,
                   receivingMultipart, senderVars, panelVars, historyVars, clockVars,
                   displayInitialized, lastDisplayUpdate, timeBasedUpdate>>

\* a scheduler that does not ask whether the display was initialized
ScheduleWithoutDisplay ==
    /\ pc = "schedule"
    /\ timeBasedUpdate' = (Elapsed(lastDisplayUpdate) > DISPLAY_UPDATE_INTERVAL)
    /\ pc' = IF (displayNeedsUpdate \/ timeBasedUpdate') /\ dataReceived
             THEN "update" ELSE "delay"
    /\ redrawn' = FALSE
    /\ UNCHANGED <<dataVars, i2cVars, senderVars, panelVars, completed, decoded,
                   renderedDecodes, clockVars, displayInitialized, lastDisplayUpdate>>

\* a scheduler that does not ask whether data was received
ScheduleWithoutData ==
    /\ pc = "schedule"
    /\ timeBasedUpdate' = (Elapsed(lastDisplayUpdate) > DISPLAY_UPDATE_INTERVAL)
    /\ pc' = IF (displayNeedsUpdate \/ timeBasedUpdate') /\ displayInitialized
             THEN "update" ELSE "delay"
    /\ redrawn' = FALSE
    /\ UNCHANGED <<dataVars, i2cVars, senderVars, panelVars, completed, decoded,
                   renderedDecodes, clockVars, displayInitialized, lastDisplayUpdate>>

\* bool timeBasedUpdate = ...; if (displayNeedsUpdate || timeBasedUpdate)
\*   if (dataReceived && displayInitialized)
Schedule ==
    /\ pc = "schedule"
    /\ timeBasedUpdate' = (Elapsed(lastDisplayUpdate) > DISPLAY_UPDATE_INTERVAL)
    /\ pc' = IF (displayNeedsUpdate \/ timeBasedUpdate') /\ dataReceived /\ displayInitialized
             THEN "update" ELSE "delay"
    /\ redrawn' = FALSE
    /\ UNCHANGED <<dataVars, i2cVars, senderVars, panelVars, completed, decoded,
                   renderedDecodes, clockVars, displayInitialized, lastDisplayUpdate>>

\* an updateDisplay() that returns without drawing
UpdateDisplaySkips ==
    /\ pc = "update"
    /\ pc' = "finish"
    /\ UNCHANGED <<dataVars, i2cVars, senderVars, panelVars, historyVars,
                   clockVars, displayInitialized, lastDisplayUpdate, timeBasedUpdate>>

\* updateDisplay() up to display.display(): the two early returns, or the drawing of
\* currentData into the frame
UpdateDisplay ==
    /\ pc = "update"
    /\ IF ~dataReceived \/ ~displayInitialized \/ ~displayNeedsUpdate
       THEN /\ pc' = "finish"
            /\ UNCHANGED panel
       ELSE /\ pc' = "render"
            /\ panel' = currentData
    /\ UNCHANGED <<dataVars, i2cVars, senderVars, displayCalls, renderElapsed, historyVars,
                   clockVars, displayInitialized, lastDisplayUpdate, timeBasedUpdate>>

\* drawModernWeatherCards(): the card of tomorrow drawn from a record
TomorrowCard(w) ==
    IF w.has_tomorrow_data
    THEN [card |-> "weather", min |-> w.tomorrow_min, max |-> w.tomorrow_max,
          text |-> w.tomorrow_description]
    ELSE [card |-> "info", text |-> NO_FORECAST]

\* display.display() returns
Render ==
    /\ pc = "render"
    /\ displayCalls' = displayCalls + 1
    /\ renderElapsed' = 0
    /\ redrawn' = TRUE
    /\ renderedDecodes' = Len(decoded)
    /\ pc' = "finish"
    /\ UNCHANGED <<dataVars, i2cVars, senderVars, panel, completed, decoded, clockVars,
                   displayInitialized, lastDisplayUpdate, timeBasedUpdate>>

\* a loop() that leaves displayNeedsUpdate set after the update
FinishUpdateKeepsFlag ==
    /\ pc = "finish"
    /\ lastDisplayUpdate' = now
    /\ pc' = "delay"
    /\ UNCHANGED <<dataVars, i2cVars, senderVars, panelVars, historyVars, clockVars,
                   displayInitialized, timeBasedUpdate>>

\* displayNeedsUpdate = false; lastDisplayUpdate = millis();
FinishUpdate ==
    /\ pc = "finish"
    /\ displayNeedsUpdate' = FALSE
    /\ lastDisplayUpdate' = now
    /\ pc' = "delay"
    /\ UNCHANGED <<currentData, previousData, dataReceived, skippedUpdates, i2cVars,
                   senderVars, panelVars, historyVars, clockVars, displayInitialized,
                   timeBasedUpdate>>

\* delay(100); and loop() is called again
Delay ==
    /\ pc = "delay"
    /\ pc' = "check"
    /\ loopRan' = TRUE
    /\ UNCHANGED <<dataVars, i2cVars, senderVars, panelVars, historyVars, now,
                   displayInitialized, lastDisplayUpdate, timeBasedUpdate>>

Loop ==
    \/ CheckReady \/ Process \/ ClearReady
    \/ CheckTimeout \/ TimeoutRecheck \/ TimeoutReset \/ TimeoutClearFlag \/ TimeoutStamp
    \/ Schedule \/ UpdateDisplay \/ Render \/ FinishUpdate \/ Delay

(***************************************************************************)
(* A tick of the clock.  loop() takes a tenth of a second when it does not *)
(* render, so ten seconds pass only over at least one whole iteration, or  *)
(* inside display.display().                                               *)
(***************************************************************************)
Advance(next) ==
    /\ now' = next
    /\ \/ /\ pc = "render"
          /\ renderElapsed < MAX_RENDER_TICKS
          /\ renderElapsed' = renderElapsed + 1
          /\ UNCHANGED loopRan
       \/ /\ pc = "check"
          /\ loopRan
          /\ loopRan' = FALSE
          /\ UNCHANGED renderElapsed
    /\ UNCHANGED <<dataVars, i2cVars, senderVars, panel, displayCalls, historyVars,
                   displayInitialized, lastDisplayUpdate, timeBasedUpdate, pc>>

Tick == now < MaxTime /\ Advance(now + 1)

(***************************************************************************)
(* The bus: the sender's next write, run through onI2CReceive.             *)
(***************************************************************************)
busFrame == <<dataVars, panelVars, decoded, redrawn, renderedDecodes,
              displayInitialized, lastDisplayUpdate, timeBasedUpdate, now, pc>>

ReceiveFirst(msgs, sizes, limit) ==
    /\ StartMessage(msgs, sizes, limit)
    /\ loopRan' = FALSE
    /\ UNCHANGED busFrame

ReceiveNext ==
    /\ ContinueMessage
    /\ loopRan' = FALSE
    /\ UNCHANGED busFrame

(***************************************************************************)
(* The system: loop(), the clock and a sender of one message in chunks of  *)
(* SpecSize payload bytes, free to write at any point of loop().           *)
(***************************************************************************)
SpecMessages == {1, 2}
SpecSizes == {12}

Next == Loop \/ Tick \/ ReceiveFirst(SpecMessages, SpecSizes, MaxSends) \/ ReceiveNext

Spec == Init /\ [][Next]_vars


(***************************************************************************)
(* The decoder on its own: a sender that writes every message unsplit and  *)
(* waits until loop() has taken the frame before it writes the next one.   *)
(* No time passes, so the timeout branch of loop() is never entered.       *)
(***************************************************************************)
LoopNoTimeout ==
    \/ CheckReady \/ Process \/ ClearReady \/ CheckTimeout
    \/ Schedule \/ UpdateDisplay \/ Render \/ FinishUpdate \/ Delay

AllMessages == 1..Len(Messages)
Unsplit == {I2C_BUFFER_SIZE}
BusIdle == pc = "check" /\ ~i2cDataReady

SendWhole == BusIdle /\ ReceiveFirst(AllMessages, Unsplit, MaxSends)

NextDecode == LoopNoTimeout \/ SendWhole

SpecDecode == Init /\ [][NextDecode]_vars

(***************************************************************************)
(* Reassembly: one message after boot in chunks of 1..MaxChunk payload     *)
(* bytes or unsplit, the chunks written between iterations of loop().      *)
(***************************************************************************)
MaxChunkSends == 1
ChunkSizes == (1..MaxChunk) \cup Unsplit

SendFirstChunk == BusIdle /\ ReceiveFirst(AllMessages, ChunkSizes, MaxChunkSends)
SendNextChunk == BusIdle /\ ReceiveNext

NextChunk == LoopNoTimeout \/ SendFirstChunk \/ SendNextChunk

SpecChunk == Init /\ [][NextChunk]_vars

(***************************************************************************)
(* The detector on its own: the buffer holds the wire bytes of one message *)
(* (in chunks of 1..MaxChunk or unsplit, when they fit the buffer) and     *)
(* isJsonComplete is asked after every byte; i2cDataReady is its answer.   *)
(***************************************************************************)
WireImage(m, size) == WireBytes(m, 0, Len(Payload(m)), size)

InitDetect ==
    /\ \E m \in AllMessages, size \in ChunkSizes :
          /\ Len(WireImage(m, size)) <= I2C_BUFFER_SIZE
          /\ sendMsg = m
          /\ sendSize = size
          /\ i2cBuffer = StoreChunk(Zeros(I2C_BUFFER_SIZE), 0, WireImage(m, size))
    /\ sendPos = 0
    /\ currentData = BootData
    /\ previousData = BootPrevious
    /\ dataReceived = FALSE
    /\ displayNeedsUpdate = FALSE
    /\ displayInitialized = TRUE
    /\ lastDisplayUpdate = 0
    /\ skippedUpdates = 0
    /\ i2cDataReady = FALSE
    /\ i2cDataLength = 0
    /\ totalDataReceived = 0
    /\ receivingMultipart = FALSE
    /\ lastReceiveTime = 0
    /\ pc = "check"
    /\ timeBasedUpdate = FALSE
    /\ now = 0
    /\ panel = StartupScreen
    /\ displayCalls = 0
    /\ renderElapsed = 0
    /\ lastSendTime = 0
    /\ sentLog = <<>>
    /\ statusReplies = <<>>
    /\ completed = <<>>
    /\ decoded = <<>>
    /\ loopRan = FALSE
    /\ redrawn = FALSE
    /\ renderedDecodes = 0

NextByte ==
    /\ totalDataReceived < Len(WireImage(sendMsg, sendSize))
    /\ totalDataReceived' = totalDataReceived + 1
    /\ i2cDataReady' = isJsonComplete(i2cBuffer, totalDataReceived')
    /\ UNCHANGED <<dataVars, panelVars, senderVars, historyVars, clockVars, i2cBuffer,
                   i2cDataLength, receivingMultipart, lastReceiveTime, displayInitialized,
                   lastDisplayUpdate, timeBasedUpdate, pc>>

SpecDetect == InitDetect /\ [][NextByte]_vars


(***************************************************************************)
(* Errors and the status request: a sender of two messages, of a frame     *)
(* that does not parse and of one that is too short, unsplit or in chunks  *)
(* of ErrorChunk bytes (one of the messages then overflows the buffer); it *)
(* may fall silent in the middle of a frame.  It starts a frame between    *)
(* iterations of loop(), when no frame is being assembled or the buffer is *)
(* full.  The master may ask for the status at any time.  The clock is     *)
(* followed only while a frame is being assembled.                         *)
(***************************************************************************)
MaxRequests == 1
MaxErrorSends == 2

\* a status reply that tells whether a frame was ever reported complete
onI2CRequestFrameSeen ==
    /\ Len(statusReplies) < MaxRequests
    /\ statusReplies' = Append(statusReplies, [status |-> IF i2cDataLength > 0 THEN 1 ELSE 0,
                                               decodes |-> Len(decoded)])
    /\ UNCHANGED <<dataVars, i2cVars, panelVars, historyVars, clockVars, sendMsg, sendPos,
                   sendSize, lastSendTime, sentLog, displayInitialized, lastDisplayUpdate,
                   timeBasedUpdate, pc>>

\* a status request that takes the pending frame as read
onI2CRequestClearsReady ==
    /\ Len(statusReplies) < MaxRequests
    /\ statusReplies' = Append(statusReplies, [status |-> IF dataReceived THEN 1 ELSE 0,
                                               decodes |-> Len(decoded)])
    /\ i2cDataReady' = FALSE
    /\ UNCHANGED <<dataVars, i2cBuffer, i2cDataLength, totalDataReceived, receivingMultipart,
                   lastReceiveTime, panelVars, historyVars, clockVars, sendMsg, sendPos,
                   sendSize, lastSendTime, sentLog, displayInitialized, lastDisplayUpdate,
                   timeBasedUpdate, pc>>

\* a status request that redraws the panel
onI2CRequestRedraws ==
    /\ Len(statusReplies) < MaxRequests
    /\ statusReplies' = Append(statusReplies, [status |-> IF dataReceived THEN 1 ELSE 0,
                                               decodes |-> Len(decoded)])
    /\ displayCalls' = displayCalls + 1
    /\ UNCHANGED <<dataVars, i2cVars, panel, renderElapsed, historyVars, clockVars, sendMsg, sendPos,
                   sendSize, lastSendTime, sentLog, displayInitialized, lastDisplayUpdate,
                   timeBasedUpdate, pc>>

\* a status request that marks a record as received
onI2CRequestMarksReceived ==
    /\ Len(statusReplies) < MaxRequests
    /\ statusReplies' = Append(statusReplies, [status |-> IF dataReceived THEN 1 ELSE 0,
                                               decodes |-> Len(decoded)])
    /\ dataReceived' = TRUE
    /\ UNCHANGED <<currentData, previousData, displayNeedsUpdate, skippedUpdates, i2cVars,
                   panelVars, historyVars, clockVars, sendMsg, sendPos, sendSize,
                   lastSendTime, sentLog, displayInitialized, lastDisplayUpdate,
                   timeBasedUpdate, pc>>

\* onI2CRequest(): Wire.write(dataReceived ? 1 : 0)
onI2CRequest ==
    /\ Len(statusReplies) < MaxRequests
    /\ statusReplies' = Append(statusReplies, [status |-> IF dataReceived THEN 1 ELSE 0,
                                               decodes |-> Len(decoded)])
    /\ UNCHANGED <<dataVars, i2cVars, panelVars, historyVars, clockVars, sendMsg, sendPos,
                   sendSize, lastSendTime, sentLog, displayInitialized, lastDisplayUpdate,
                   timeBasedUpdate, pc>>

ErrorFrames == {1, 12, MALFORMED, SHORT}
ErrorChunk == 12
ErrorSizes == {ErrorChunk} \cup Unsplit
BufferFull == totalDataReceived = I2C_BUFFER_SIZE

SendFrame ==
    /\ BusIdle
    /\ totalDataReceived = 0 \/ BufferFull
    /\ ReceiveFirst(ErrorFrames, ErrorSizes, MaxErrorSends)

StallTick == receivingMultipart /\ Tick

NextErrors == Loop \/ StallTick \/ SendFrame \/ SendNextChunk \/ onI2CRequest

SpecErrors == Init /\ [][NextErrors]_vars

(***************************************************************************)
(* The change detector: unsplit messages as in SpecDecode, the sender      *)
(* choosing among the base message, a message with another temperature and *)
(* the messages whose fingerprint collides after the base message.         *)
(***************************************************************************)
DetectorMessages == {1, 2, SAME_HASHES, SAME_LOCAL_HASH, SAME_LOCAL_NO_HASH}

SendDetectorMessage == BusIdle /\ ReceiveFirst(DetectorMessages, Unsplit, MaxSends)

NextDetector == LoopNoTimeout \/ SendDetectorMessage

SpecDetector == Init /\ [][NextDetector]_vars

(***************************************************************************)
(* The callbacks: loop(), the clock, and a master that writes the base     *)
(* message in chunks and asks for the status, both at any point of loop(), *)
(* display.display() included.                                             *)
(***************************************************************************)
MaxCallbackSends == 2
CallbackMessages == {1}

NextCallbacks ==
    \/ Loop
    \/ Tick
    \/ ReceiveFirst(CallbackMessages, SpecSizes, MaxCallbackSends)
    \/ ReceiveNext
    \/ onI2CRequest

SpecCallbacks == Init /\ [][NextCallbacks]_vars

(***************************************************************************)
(* The timeout under fair scheduling: the Arduino core calls loop() again  *)
(* and again and every statement of it returns, so iterations of loop()    *)
(* end infinitely often, and time passes.  The master writes the base      *)
(* message in chunks, at any point of loop(), may fall silent at any time, *)
(* and writes only while the clock of the model leaves room for the        *)
(* timeout.                                                                *)
(***************************************************************************)
MaxFairSends == 2
RoomForTimeout == now + RECEIVE_TIMEOUT < MaxTime

WriteFirst == RoomForTimeout /\ ReceiveFirst(CallbackMessages, SpecSizes, MaxFairSends)
WriteNext == RoomForTimeout /\ ReceiveNext

NextFair == Loop \/ Tick \/ WriteFirst \/ WriteNext

LoopRunsForever == []<><<Delay>>_vars

SpecFair == Init /\ [][NextFair]_vars /\ LoopRunsForever /\ SF_vars(Tick)

(***************************************************************************)
(* The records: the sender of SpecErrors with the base message, the        *)
(* message that collides with it, a frame that does not parse and a frame  *)
(* that is too short, starting a frame only when none is being assembled.  *)
(***************************************************************************)
RecordFrames == {1, SAME_HASHES, MALFORMED, SHORT}

SendRecordFrame ==
    /\ BusIdle
    /\ totalDataReceived = 0
    /\ ReceiveFirst(RecordFrames, ErrorSizes, MaxErrorSends)

NextRecords == Loop \/ StallTick \/ SendRecordFrame \/ SendNextChunk \/ onI2CRequest

SpecRecords == Init /\ [][NextRecords]_vars

(***************************************************************************)
(* Properties.                                                             *)
(***************************************************************************)
(***************************************************************************)
(* The clock across the wrap of the millisecond counter: the base message, *)
(* whole or in chunks, written between two iterations of loop(), while the *)
(* ticks since boot pass the width of the counter.                         *)
(***************************************************************************)
MaxWrapTime == 10

TickWrap == now < MaxWrapTime /\ Advance(now + 1)
SendWrap == BusIdle /\ ReceiveFirst(CallbackMessages, ErrorSizes, MaxSends)

NextWrap == Loop \/ TickWrap \/ SendWrap \/ SendNextChunk

SpecWrap == Init /\ [][NextWrap]_vars

(***************************************************************************)
(* A host that does not stop writing: the frames of SpecErrors, and a host *)
(* that goes on writing chunks to a full buffer, each within the receive   *)
(* timeout of the write before, with the clock running round its counter   *)
(* for ever.                                                               *)
(***************************************************************************)
StallCyclic == receivingMultipart /\ Advance((now + 1) % CLOCK_MOD)

WriteToFullBuffer ==
    /\ BusIdle
    /\ BufferFull
    /\ Elapsed(lastSendTime) <= RECEIVE_TIMEOUT
    /\ onI2CReceive(Chunk(sendMsg, 0, sendSize))
    /\ lastSendTime' = now
    /\ loopRan' = FALSE
    /\ UNCHANGED <<sendMsg, sendPos, sendSize, sentLog, statusReplies, busFrame>>

NextPersist == Loop \/ StallCyclic \/ SendFrame \/ SendNextChunk \/ WriteToFullBuffer

SpecPersist == Init /\ [][NextPersist]_vars /\ LoopRunsForever /\ SF_vars(StallCyclic)

Last(s) == s[Len(s)]
Range(s) == {s[i] : i \in 1..Len(s)}
Accepted(d) == d.branch \in {"changed", "unchanged"}

\* processI2CData run on a frame right after setup()
DecodeAfterBoot(raw) ==
    processI2CData(StoreChunk(Zeros(I2C_BUFFER_SIZE), 0, raw), Min(Len(raw), I2C_BUFFER_SIZE),
                   BootData, BootPrevious, FALSE, FALSE, 0)

\* message m written unsplit right after setup(), and loop() run on it
UnsplitDecode(m) ==
    LET raw == Chunk(m, 0, Len(Payload(m)))
    IN  IF isJsonComplete(StoreChunk(Zeros(I2C_BUFFER_SIZE), 0, raw),
                          Min(Len(raw), I2C_BUFFER_SIZE))
        THEN DecodeAfterBoot(raw)
        ELSE DecodeState(BootData, BootPrevious, FALSE, FALSE, 0, "none")

\* C1: when a message is decoded and the byte-identical message is decoded again with
\* no other message in between, the second decode takes the 'unchanged' branch.
C1_RepeatUnchanged ==
    \A i \in 2..Len(decoded) :
        (/\ Accepted(decoded[i - 1])
         /\ Accepted(decoded[i])
         /\ decoded[i].raw = decoded[i - 1].raw)
        => decoded[i].branch = "unchanged"

\* C2: after one record was accepted and rendered and the refresh interval has passed
\* without a change, the iteration of loop() that takes the time-based path (with
\* displayNeedsUpdate false) redraws the panel, exactly once.
C2_TimeBasedRedraw ==
    (/\ Len(decoded) = 1
     /\ Accepted(decoded[1])
     /\ renderedDecodes = 1
     /\ pc = "finish"
     /\ timeBasedUpdate
     /\ ~displayNeedsUpdate)
    => (redrawn /\ displayCalls = 2)

\* C3: a message delivered in chunks of any size and decoded leaves the same decoded
\* record as the same message delivered in one unsplit write.
C3_ChunkedEqualsUnsplit ==
    (/\ Len(sentLog) = 1
     /\ ~Sending
     /\ pc = "check"
     /\ ~i2cDataReady
     /\ loopRan)
    => currentData = UnsplitDecode(sentLog[1]).currentData

\* C4: isJsonComplete is false on every prefix of a valid message that ends before the
\* final closing delimiter, and true when the buffer reaches that delimiter.
C4_CompleteAtFinalDelimiter ==
    i2cDataReady = (totalDataReceived = Len(WireImage(sendMsg, sendSize)))

\* C5: a message that stalls for longer than the receive timeout is never reported
\* complete, and a message sent afterwards is reassembled from its own bytes only:
\* while it is in transmission the buffer holds exactly the bytes written for it.
C5_NoResidualBytes ==
    /\ \A i \in 1..Len(completed) :
          \E m \in SpecMessages, size \in SpecSizes : completed[i] = WireImage(m, size)
    /\ (Sending /\ ~Stalled)
       => SubSeq(i2cBuffer, 1, totalDataReceived) = WireBytes(sendMsg, 0, sendPos, sendSize)

\* C6: every frame processI2CData decodes has exactly the bytes and the length of a
\* frame at the moment its completion was detected.
C6_DecodedAsCompleted ==
    \A i \in 1..Len(decoded) : decoded[i].raw \in Range(completed)

\* C7: when loop() clears i2cDataReady, no completion has been signalled since the
\* decode it has just run began, so the clearing never discards a completed frame.
C7_ClearLosesNoCompletion ==
    pc = "clear" => Last(decoded).completions = Len(completed)

\* C8: a render is always preceded by a decode that came after the previous render,
\* so scheduler ticks with no new data between them render at most once.
C8_AtMostOneRender ==
    pc = "render" => renderedDecodes < Len(decoded)

\* C8 witness: an iteration of loop() that follows the render of the only decoded
\* frame, with no time passed since, has gone through the scheduler without a render.
C8_SecondTickNoRender ==
    /\ pc = "delay"
    /\ ~redrawn
    /\ displayCalls = 1
    /\ Len(decoded) = 1
    /\ renderedDecodes = 1
    /\ now = lastDisplayUpdate

\* C9: the record left by a successful decode depends on the decoded bytes only: it is
\* the record the same bytes give when they are the first frame after setup().
C9_DecodeDeterministic ==
    (/\ pc = "clear"
     /\ Accepted(Last(decoded)))
    => currentData = DecodeAfterBoot(Last(decoded).raw).currentData

\* the fields of a decoded record that the display shows, those of the events at or
\* after event_count blanked
EventFields(d, i) ==
    IF i <= d.event_count THEN <<d.events[i].title, d.events[i].valid>> ELSE <<<<>>, FALSE>>

RECURSIVE EventsFields(_, _)
EventsFields(d, i) ==
    IF i > MAX_EVENTS THEN <<>> ELSE EventFields(d, i) \o EventsFields(d, i + 1)

Fields(d) ==
    <<d.weather.current_temperature, d.weather.tomorrow_min, d.weather.tomorrow_max,
      d.weather.tomorrow_description, d.weather.has_tomorrow_data, d.weather.location,
      d.event_count, d.timestamp>> \o EventsFields(d, 1)

DifferingFields(a, b) ==
    {j \in 1..Len(Fields(a)) : Fields(a)[j] # Fields(b)[j]}

\* messages a and b decode to records that differ in exactly one field, and carry the
\* same fingerprint
OneFieldDiffers(a, b) ==
    LET da == UnsplitDecode(a).currentData
        db == UnsplitDecode(b).currentData
    IN  /\ Cardinality(DifferingFields(da, db)) = 1
        /\ da.received_hash = db.received_hash

\* C10: when two consecutively decoded messages differ in exactly one field of the
\* record other than the fingerprint fields, the second decode reports 'changed'.
C10_SingleFieldChanged ==
    \A i \in 2..Len(decoded) :
        (/\ i <= Len(sentLog)
         /\ Accepted(decoded[i - 1])
         /\ Accepted(decoded[i])
         /\ OneFieldDiffers(sentLog[i - 1], sentLog[i]))
        => decoded[i].branch = "changed"

\* C10 witness: the base message and then the message that differs from it in the
\* timestamp only have both been decoded, the second as 'changed'.
C10_TimestampOnlyDecoded ==
    /\ Len(decoded) = 2
    /\ sentLog = <<1, 7>>
    /\ OneFieldDiffers(1, 7)
    /\ decoded[2].branch = "changed"


\* a frame among the first n processed was accepted
AcceptedBy(n) == \E k \in 1..n : Accepted(decoded[k])

MalformedPending ==
    /\ pc = "process"
    /\ i2cDataLength >= MIN_PROCESS_LEN
    /\ ~deserializeJson(CleanBytes(i2cBuffer, 1, i2cDataLength)).ok

\* C12: the decode of a frame whose text does not parse changes none of currentData,
\* previousData, displayNeedsUpdate, dataReceived and skippedUpdates, and nothing of
\* what the panel shows.
C12_MalformedKeepsState ==
    [][MalformedPending => UNCHANGED <<dataVars, panelVars>>]_vars

\* C12 witness: a malformed frame has been processed after an accepted message, and
\* the record of that message is still the current one.
C12_MalformedAfterAccepted ==
    /\ pc = "clear"
    /\ Len(decoded) = 2
    /\ Accepted(decoded[1])
    /\ decoded[2].branch = "malformed"
    /\ CleanBytes(decoded[2].raw, 1, Len(decoded[2].raw)) = MalformedFrame
    /\ currentData = UnsplitDecode(sentLog[1]).currentData

\* C13: the decode of a complete frame shorter than the minimum length changes none
\* of currentData, previousData, displayNeedsUpdate, dataReceived and skippedUpdates.
C13_ShortFrameKeepsState ==
    [][(pc = "process" /\ i2cDataLength < MIN_PROCESS_LEN) => UNCHANGED dataVars]_vars

\* C13 witness: a complete frame that would parse, shorter than the minimum, has been
\* processed as the first frame and no data has been received.
C13_ShortFrameDiscarded ==
    /\ pc = "clear"
    /\ Len(decoded) = 1
    /\ decoded[1].branch = "insufficient"
    /\ deserializeJson(CleanBytes(decoded[1].raw, 1, Len(decoded[1].raw))).ok
    /\ ~dataReceived
    /\ currentData = BootData


\* the last frame the sender started is a well-formed message written whole, and
\* loop() has run an iteration since
WholeMessageHandled ==
    /\ Len(sentLog) >= 2
    /\ sendMsg \in AllMessages
    /\ sendSize = I2C_BUFFER_SIZE
    /\ pc = "check"
    /\ ~i2cDataReady
    /\ loopRan

LastFrameAccepted ==
    /\ decoded # <<>>
    /\ Accepted(Last(decoded))
    /\ CleanBytes(Last(decoded).raw, 1, Len(Last(decoded).raw)) = Payload(sendMsg)
    /\ dataReceived

DecodedLastSent ==
    /\ pc = "clear"
    /\ Len(decoded) = Len(sentLog)
    /\ Accepted(Last(decoded))

\* C15: the stored event_count of a decoded message is the smaller of the payload's
\* event_count and the capacity of the record, the entries below it are those of the
\* payload, and event_count never exceeds the capacity in any state.
C15_EventCountClamped ==
    /\ currentData.event_count <= MAX_EVENTS
    /\ previousData.event_count <= MAX_EVENTS
    /\ DecodedLastSent =>
          LET m == Messages[Last(sentLog)]
          IN  /\ currentData.event_count = Min(m.count, MAX_EVENTS)
              /\ \A i \in 1..currentData.event_count :
                    currentData.events[i].title = Strncpy(m.events[i].title, TITLE_SIZE)

\* C15 witness: a message whose event_count exceeds the capacity has been decoded and
\* the stored count is the capacity.
C15_OversizedCountDecoded ==
    /\ DecodedLastSent
    /\ Messages[Last(sentLog)].count > MAX_EVENTS
    /\ currentData.event_count = MAX_EVENTS


\* C16: a message without tomorrow_min or without tomorrow_max decodes with the
\* tomorrow flag false and the 'No forecast' description, a message with both decodes
\* with the flag true and the payload's bounds; and the panel shows the bounds of
\* tomorrow only for a record whose flag is true.
C16_TomorrowSentinel ==
    /\ DecodedLastSent =>
          LET m == Messages[Last(sentLog)]
              w == currentData.weather
          IN  IF Len(m.tomorrow) < 2
              THEN /\ ~w.has_tomorrow_data
                   /\ w.tomorrow_description = Strncpy(NO_FORECAST, DESC_SIZE)
              ELSE /\ w.has_tomorrow_data
                   /\ w.tomorrow_min = m.tomorrow[1]
                   /\ w.tomorrow_max = m.tomorrow[2]
    /\ (pc = "render" /\ ~panel.weather.has_tomorrow_data)
          => TomorrowCard(panel.weather) = [card |-> "info", text |-> NO_FORECAST]

\* C16 witness: a message with tomorrow_min and no tomorrow_max has been decoded and
\* is being rendered, with the flag false.
C16_HalfForecastRendered ==
    /\ pc = "render"
    /\ Len(sentLog) = 1
    /\ Len(Messages[sentLog[1]].tomorrow) = 1
    /\ ~panel.weather.has_tomorrow_data
    /\ panel.weather.tomorrow_min = 0


\* C17: while no frame has been decoded successfully the scheduler never calls
\* updateDisplay and nothing is rendered, whatever the pending flag and the time
\* since the last update.
C17_NoRenderBeforeData ==
    (pc \in {"update", "render"} \/ displayCalls > 0) => dataReceived

\* C17 witness: the refresh interval has elapsed with no data received, and the
\* iteration of loop() went past the scheduler without a render.
C17_IntervalElapsedNoData ==
    /\ pc = "delay"
    /\ timeBasedUpdate
    /\ displayInitialized
    /\ ~dataReceived
    /\ displayCalls = 0


\* loop() runs processI2CData on a frame it accepts
AcceptingDecode ==
    /\ pc = "process"
    /\ pc' = "clear"
    /\ Accepted(Last(decoded'))

\* C18: a decoded message is reported 'changed' exactly when the fingerprint computed
\* for it differs from previousData.data_hash or the sender's fingerprint differs
\* from previousData.received_hash.
C18_ChangedIffEitherDiffers ==
    [][AcceptingDecode =>
          ((Last(decoded').branch = "changed")
             <=> (\/ currentData'.data_hash # previousData.data_hash
                  \/ currentData'.received_hash # previousData.received_hash))]_vars

\* C18 witness: after the base message, a message with the same computed fingerprint
\* and another sender fingerprint has been decoded and reported 'changed'.
C18_ReceivedHashAloneChanged ==
    /\ pc = "clear"
    /\ sentLog = <<1, SAME_LOCAL_HASH>>
    /\ Len(decoded) = 2
    /\ decoded[2].branch = "changed"
    /\ currentData.data_hash = decoded[1].hash

\* C19: the fingerprint computed for a record does not depend on the record's own
\* fingerprint fields.
C19_FingerprintExcludesItself ==
    dataReceived =>
        calculateDataHash(currentData)
          = calculateDataHash([currentData EXCEPT !.data_hash = Zeros(4),
                                                  !.received_hash = Zeros(RECEIVED_HASH_SIZE)])

\* C20: a decode reported 'changed' makes previousData a copy of the new record with
\* both fingerprints and sets displayNeedsUpdate; a decode reported 'unchanged' adds
\* one to skippedUpdates and leaves previousData, displayNeedsUpdate and the current
\* record as they were.
C20_DetectorEffects ==
    [][AcceptingDecode =>
          IF Last(decoded').branch = "changed"
          THEN /\ previousData' = currentData'
               /\ displayNeedsUpdate'
               /\ UNCHANGED skippedUpdates
          ELSE /\ skippedUpdates' = skippedUpdates + 1
               /\ UNCHANGED <<previousData, displayNeedsUpdate, currentData>>]_vars


\* C21: previousData changes in no step other than a decode reported 'changed', and
\* that decode makes it a copy of the whole new record: bus callbacks, the timeout
\* handling, rejected frames, 'unchanged' decodes and renders leave it as it was.
C21_PreviousOnlyOnChanged ==
    [][/\ previousData' # previousData
          => (pc = "process" /\ pc' = "clear" /\ Last(decoded').branch = "changed")
       /\ (pc = "process" /\ pc' = "clear" /\ Last(decoded').branch = "changed")
          => previousData' = currentData']_vars

\* C21 witness: the base message was decoded and rendered, then a message decoded as
\* 'unchanged', and previousData is still the record of the base message while
\* currentData is not.
C21_PreviousKeptOnUnchanged ==
    /\ pc = "delay"
    /\ displayCalls = 1
    /\ Len(decoded) = 2
    /\ decoded[2].branch = "unchanged"
    /\ previousData = UnsplitDecode(1).previousData
    /\ previousData # currentData


\* C22: the sender's fingerprint takes part in the verdict only when the message
\* carries one: a decoded message without one (received_hash empty) is reported
\* 'changed' exactly when the computed fingerprint differs from
\* previousData.data_hash, a message with one also when its fingerprint differs from
\* previousData.received_hash.
C22_SenderFingerprintOptional ==
    [][AcceptingDecode =>
          ((Last(decoded').branch = "changed")
             <=> (\/ currentData'.data_hash # previousData.data_hash
                  \/ /\ currentData'.received_hash # Zeros(RECEIVED_HASH_SIZE)
                     /\ currentData'.received_hash # previousData.received_hash))]_vars


\* one step of the scheduler part of loop(), `ready` being what the scheduler asks for
\* besides the pending flag: with the flag set and `ready`, the iteration goes from
\* the scheduler through updateDisplay() and display.display() with the flag kept,
\* and ends with the flag cleared and lastDisplayUpdate at the current time; with the
\* flag clear and the interval not elapsed it goes past them and changes nothing
RefreshStep(ready) ==
    /\ (pc = "schedule" /\ pc' # pc /\ displayNeedsUpdate /\ ready) => pc' = "update"
    /\ (pc \in {"schedule", "update", "render"} /\ displayNeedsUpdate) => displayNeedsUpdate'
    /\ (pc = "update" /\ pc' # pc /\ displayNeedsUpdate /\ ready)
          => (pc' = "render" /\ panel' = currentData)
    /\ (pc = "render" /\ pc' # pc) => (pc' = "finish" /\ displayCalls' = displayCalls + 1)
    /\ (pc = "finish" /\ pc' # pc)
          => (pc' = "delay" /\ ~displayNeedsUpdate' /\ lastDisplayUpdate' = now')
    /\ (/\ pc = "schedule"
        /\ pc' # pc
        /\ ~displayNeedsUpdate
        /\ Elapsed(lastDisplayUpdate) <= DISPLAY_UPDATE_INTERVAL)
          => (/\ pc' = "delay"
              /\ UNCHANGED <<displayNeedsUpdate, lastDisplayUpdate, displayCalls, panel>>)

\* C23: in every iteration of loop() that reaches the scheduler with displayNeedsUpdate
\* set and a record decoded, the render runs within that iteration and leaves
\* displayNeedsUpdate false and lastDisplayUpdate at the current time; with
\* displayNeedsUpdate false and the interval not elapsed nothing is rendered and both
\* fields stay as they were.
C23_RefreshWhenPending ==
    [][RefreshStep(dataReceived)]_vars

\* C23, amended: the same for iterations in which the display was initialised.
C23_RefreshWhenPendingAndInitialized ==
    [][RefreshStep(dataReceived /\ displayInitialized)]_vars

\* C23 witness: an iteration has rendered on the pending flag, display.display() took
\* time, and the flag is clear with lastDisplayUpdate at the current time.
C23_RenderedThisIteration ==
    /\ pc = "delay"
    /\ redrawn
    /\ displayInitialized
    /\ ~displayNeedsUpdate
    /\ now > 0
    /\ lastDisplayUpdate = now


\* C24: display.display() is called from loop() only, one call at a time: the number
\* of calls grows by one, and only in the step of loop() that ends the call, the
\* frame is drawn only by updateDisplay() called from loop(), and a bus callback that
\* runs while display.display() is running changes neither the frame nor the number
\* of calls.
C24_RenderOnlyFromLoop ==
    [][/\ displayCalls' # displayCalls
          => (pc = "render" /\ pc' = "finish" /\ displayCalls' = displayCalls + 1)
       /\ ~(pc = "update" /\ pc' = "render") => UNCHANGED panel
       /\ (pc = "render" /\ pc' = "render") => UNCHANGED <<panel, displayCalls>>]_vars

\* C24 witness: display.display() is running for the first time, time has passed
\* since it began, a chunk of the next message has arrived in that time and the
\* status has been asked, and no call has been counted.
C24_CallbackDuringRender ==
    /\ pc = "render"
    /\ renderElapsed > 0
    /\ receivingMultipart
    /\ lastReceiveTime = now
    /\ Len(statusReplies) = 1
    /\ statusReplies[1].status = 1
    /\ displayCalls = 0


\* a step in which the master writes to the bus, and the bytes it writes
BusWrite == sentLog' # sentLog \/ sendPos' # sendPos
ArrivingChunk ==
    IF sentLog' # sentLog THEN Chunk(sendMsg', 0, sendSize') ELSE Chunk(sendMsg, sendPos, sendSize)

\* the number of valid bytes after a bus write: the length handed to the decoder when
\* the frame was reported complete, totalDataReceived otherwise
LengthAfterWrite == IF totalDataReceived' = 0 THEN i2cDataLength' ELSE totalDataReceived'

BufferWithinCapacity ==
    /\ totalDataReceived \in 0..I2C_BUFFER_SIZE
    /\ i2cDataLength \in 0..I2C_BUFFER_SIZE
    /\ DOMAIN i2cBuffer = 1..I2C_BUFFER_SIZE

\* C25: a bus write stores the first min(chunk length, capacity - length) bytes of
\* the chunk, in order, from offset length, and nothing else of it: the length grows
\* by that number, the bytes before the offset stay, the bytes behind the stored ones
\* stay (or are zero when the write began a frame); the length is never above the
\* capacity and the buffer has no byte outside it.
C25_ChunkStoredWithinCapacity ==
    /\ []BufferWithinCapacity
    /\ [][BusWrite =>
            LET chunk == ArrivingChunk
                stored == Min(Len(chunk), I2C_BUFFER_SIZE - totalDataReceived)
            IN  /\ LengthAfterWrite = totalDataReceived + stored
                /\ \A i \in 1..stored : i2cBuffer'[totalDataReceived + i] = chunk[i]
                /\ \A i \in 1..totalDataReceived : i2cBuffer'[i] = i2cBuffer[i]
                /\ \A i \in (totalDataReceived + stored + 1)..I2C_BUFFER_SIZE :
                      i2cBuffer'[i] = IF totalDataReceived = 0 THEN 0 ELSE i2cBuffer[i]]_vars

\* C25 witness: the master has written all chunks of a message longer than the
\* buffer; the buffer is full of the first bytes written and the rest was dropped.
C25_OverflowDropped ==
    /\ sendMsg # 0
    /\ ~Sending
    /\ Len(WireImage(sendMsg, sendSize)) > I2C_BUFFER_SIZE
    /\ totalDataReceived = I2C_BUFFER_SIZE
    /\ i2cBuffer = SubSeq(WireImage(sendMsg, sendSize), 1, I2C_BUFFER_SIZE)


\* C26: whenever a bus write begins, receivingMultipart is true exactly when
\* totalDataReceived > 0, so the buffer is cleared (totalDataReceived = 0) exactly
\* for the chunks that arrive with the receiving flag false.
C26_ClearedIffNotReceiving ==
    [][BusWrite => (receivingMultipart <=> totalDataReceived > 0)]_vars


\* C27: a frame in progress (bytes stored, not reported complete) for which no
\* further chunk arrives is eventually abandoned: totalDataReceived becomes 0 and
\* receivingMultipart false.
C27_StalledFrameAbandoned ==
    (totalDataReceived > 0) ~> (totalDataReceived = 0 /\ ~receivingMultipart)


\* C28: whenever loop() runs processI2CData, the bytes it parses (the first
\* i2cDataLength bytes of the buffer) are a frame isJsonComplete reports complete.
C28_DecoderRunsOnCompleteFrame ==
    pc = "process" => isJsonComplete(i2cBuffer, i2cDataLength)


\* the bytes of s other than 0x00, in their order
NonZero(s) == SelectSeq(s, LAMBDA b : b # REGISTER_BYTE)

\* the braces of a text balance: some closing brace behind the first opening brace
\* has as many opening as closing braces between that one and itself
CountOf(text, b, from, to) == Cardinality({k \in from..to : text[k] = b})
BraceBalanced(text) ==
    LET opens == {k \in 1..Len(text) : text[k] = Ascii.lbrace}
        first == CHOOSE k \in opens : \A j \in opens : k <= j
    IN  IF opens = {} THEN FALSE
        ELSE \E k \in (first + 1)..Len(text) :
                /\ text[k] = Ascii.rbrace
                /\ CountOf(text, Ascii.lbrace, first, k) = CountOf(text, Ascii.rbrace, first, k)

\* the bytes assembled so far: the frame handed to the decoder when one was reported
\* complete, the bytes received otherwise
AssembledBytes ==
    SubSeq(i2cBuffer, 1, IF i2cDataReady THEN i2cDataLength ELSE totalDataReceived)

\* C29: the register byte is filtered by value.  The text processI2CData parses is
\* the raw frame without its 0x00 bytes, wherever they lie: a frame is accepted
\* exactly when that text parses, and the record is the one extracted from it.  The
\* verdict of isJsonComplete on at least the minimum number of bytes is whether the
\* braces of those bytes without the 0x00 bytes balance.
C29_FilteredByValue ==
    /\ Len(AssembledBytes) >= MIN_JSON_LEN
          => (i2cDataReady = BraceBalanced(NonZero(AssembledBytes)))
    /\ \A i \in 1..Len(decoded) :
          decoded[i].branch # "insufficient"
             => (Accepted(decoded[i]) <=> deserializeJson(NonZero(decoded[i].raw)).ok)
    /\ (pc = "clear" /\ Accepted(Last(decoded)))
          => currentData = [ExtractData(deserializeJson(NonZero(Last(decoded).raw)).v, currentData)
                              EXCEPT !.data_hash = currentData.data_hash]

\* C29 witness: a message written in chunks of three payload bytes, a 0x00 byte
\* before every third byte of it, has been reported complete and accepted.
C29_SmallChunksAccepted ==
    /\ pc = "clear"
    /\ sendSize = 3
    /\ Len(decoded) = 1
    /\ Accepted(decoded[1])
    /\ Len(decoded[1].raw) >= Len(Payload(sendMsg)) + Len(Payload(sendMsg)) \div 3
    /\ NonZero(decoded[1].raw) = Payload(sendMsg)


\* C30: a status request changes no variable of the sketch (the buffer and its
\* length, the receiving and ready flags, the timestamps, the two records and the
\* flags of the decoder, the scheduler and the panel), and its reply is a function of
\* dataReceived alone.
C30_StatusRequestReadOnly ==
    [][statusReplies' # statusReplies =>
          /\ UNCHANGED <<dataVars, i2cVars, panelVars, displayInitialized, lastDisplayUpdate,
                         timeBasedUpdate, pc, now>>
          /\ Last(statusReplies').status = IF dataReceived THEN 1 ELSE 0]_vars

\* C30 witness: the status was asked after the first decode and answered 1, and the
\* pending update, the running display.display() and the frame being assembled are
\* all still there.
C30_RepliedWithWorkPending ==
    /\ Len(statusReplies) = 1
    /\ statusReplies[1].status = 1
    /\ statusReplies[1].decodes = 1
    /\ pc = "render"
    /\ displayNeedsUpdate
    /\ totalDataReceived > 0
    /\ receivingMultipart


\* the number of bytes the decoder copies into cleanBuffer (lines 326-336), which is
\* the index of the terminator written at line 339
cleanLength == Len(CleanBytes(i2cBuffer, 1, i2cDataLength))

\* C31: the terminator written after the 0x00 bytes are stripped stays inside
\* cleanBuffer.  For every frame handed to processI2CData that reaches the clean
\* copy, cleanLength is at most the capacity less one, so cleanBuffer[cleanLength]
\* is a valid index: every chunk the host writes begins with the register byte, so
\* the first byte of the buffer is always a 0x00 that the copy drops.
C31_TerminatorInsideCleanBuffer ==
    (pc = "process" /\ i2cDataLength >= MIN_PROCESS_LEN)
        => /\ i2cDataLength <= I2C_BUFFER_SIZE
           /\ cleanLength <= I2C_BUFFER_SIZE - 1

\* C31 witness: a frame that fills the receive buffer to its last byte is handed to
\* the decoder, and the terminator goes to the last index of cleanBuffer.
C31_FullBufferDecoded ==
    /\ pc = "process"
    /\ i2cDataLength = I2C_BUFFER_SIZE
    /\ cleanLength = I2C_BUFFER_SIZE - 1


\* C32: the timeout branch discards only a frame for which no chunk arrived within
\* the receive timeout.  When loop() resets totalDataReceived (line 146), the bytes it
\* drops are those of a frame whose last chunk is older than the timeout: a chunk
\* delivered after the test of line 132 is not among them.
C32_TimeoutDiscardsOnlyStaleFrame ==
    [][(pc = "reset" /\ pc' = "resetflag" /\ totalDataReceived > 0)
          => Elapsed(lastReceiveTime) > RECEIVE_TIMEOUT]_vars


\* C33: whenever a render redraws the panel, the record drawn is currentData and it
\* is identical to previousData, from the drawing of the frame until loop() has
\* finished the update.
C33_DrawnRecordIsPrevious ==
    (pc = "render" \/ (pc = "finish" /\ redrawn))
        => /\ panel = currentData
           /\ currentData = previousData

\* C33 witness: the panel is being redrawn for the second time, with the record of a
\* later decode than the first one drawn.
C33_SecondRecordDrawn ==
    /\ pc = "render"
    /\ displayCalls = 1
    /\ Len(decoded) >= 2
    /\ Last(decoded).branch = "changed"
    /\ panel = currentData


\* C34: displayNeedsUpdate goes from true to false only in the iteration of loop()
\* in which the panel was redrawn, by the assignment that follows updateDisplay();
\* while the display is not initialized or no record was decoded, it stays true.
C34_FlagClearedOnlyByRedraw ==
    [][displayNeedsUpdate
          => /\ ~displayNeedsUpdate' => (pc = "finish" /\ redrawn)
             /\ (~displayInitialized \/ ~dataReceived) => displayNeedsUpdate']_vars

\* C34 witness: loop() has cleared the flag after redrawing the record of the second
\* decode.
C34_ClearedAfterSecondRedraw ==
    /\ pc = "delay"
    /\ redrawn
    /\ ~displayNeedsUpdate
    /\ displayCalls = 2
    /\ renderedDecodes = 2


\* C35: the two bus callbacks leave the state of the decoder and of the scheduler
\* alone.  A step of onI2CReceive (a write of the host) or of onI2CRequest (a status
\* request) changes none of currentData, previousData, displayNeedsUpdate,
\* dataReceived, lastDisplayUpdate and skippedUpdates.
C35_CallbacksKeepRecords ==
    [][(BusWrite \/ statusReplies' # statusReplies)
          => UNCHANGED <<currentData, previousData, displayNeedsUpdate, dataReceived,
                         lastDisplayUpdate, skippedUpdates>>]_vars

\* C35 witness: a write and a status request have both arrived after the first
\* decode, before loop() reached the scheduler, and the update is still pending.
C35_CallbacksBeforeScheduler ==
    /\ pc = "schedule"
    /\ Len(decoded) = 1
    /\ Len(sentLog) = 2
    /\ totalDataReceived > 0
    /\ Len(statusReplies) = 1
    /\ statusReplies[1].decodes = 1
    /\ displayNeedsUpdate
    /\ dataReceived


\* C37: the first message decoded successfully after setup() is accepted as changed,
\* whatever it holds, when the fingerprint of its sender is not the literal "none" of
\* setup(): the decode sets displayNeedsUpdate and copies the record to previousData.
C37_FirstDecodeChanged ==
    [][(/\ pc = "process"
        /\ pc' = "clear"
        /\ ~dataReceived
        /\ Accepted(Last(decoded'))
        /\ currentData'.received_hash # NONE_HASH)
          => /\ Last(decoded').branch = "changed"
             /\ displayNeedsUpdate'
             /\ dataReceived'
             /\ previousData' = currentData']_vars

\* C37 witness: a malformed frame was decoded first and left no record; the frame
\* after it is the first one accepted, and as changed.
C37_FirstAcceptedAfterMalformed ==
    /\ pc = "clear"
    /\ Len(decoded) = 2
    /\ decoded[1].branch = "malformed"
    /\ decoded[2].branch = "changed"
    /\ currentData.received_hash # NONE_HASH
    /\ displayNeedsUpdate
    /\ skippedUpdates = 0
    /\ previousData = currentData


\* C38: with no bus callback running inside the timeout branch, the re-check of the
\* timeout branch never succeeds.  Whenever receivingMultipart is true,
\* isJsonComplete() is false on the bytes of the buffer, so the re-check of line 136
\* takes the else branch and reports no frame.
C38_RecheckNeverSucceeds ==
    /\ [](receivingMultipart => ~isJsonComplete(i2cBuffer, totalDataReceived))
    /\ [][(pc = "recheck" /\ pc' = "reset")
            => (UNCHANGED <<i2cDataReady, i2cDataLength, completed>>
                /\ i2cBuffer' = Zeros(I2C_BUFFER_SIZE))]_vars

\* C38 witness: the timeout has fired on a frame in progress and loop() is at the
\* re-check, with the bytes of the frame still in the buffer.
C38_AtRecheckWithPartialFrame ==
    /\ pc = "recheck"
    /\ receivingMultipart
    /\ totalDataReceived >= MIN_JSON_LEN
    /\ i2cBuffer # Zeros(I2C_BUFFER_SIZE)
    /\ ~i2cDataReady


\* C40: after every successful decode, on the changed branch and on the unchanged
\* one, the two fingerprints of currentData are those of previousData:
\* currentData.data_hash = previousData.data_hash and currentData.received_hash =
\* previousData.received_hash.  Frames rejected later leave it so.
C40_FingerprintsAgree ==
    dataReceived
        => /\ currentData.data_hash = previousData.data_hash
           /\ currentData.received_hash = previousData.received_hash

\* C40 witness: a decode has taken the unchanged branch on a record that is not the
\* one kept in previousData, and the fingerprints of the two records are the same.
C40_AgreeOnDifferentRecords ==
    /\ pc = "clear"
    /\ Len(decoded) = 2
    /\ decoded[2].branch = "unchanged"
    /\ currentData # previousData
    /\ currentData.data_hash = previousData.data_hash
    /\ currentData.received_hash = previousData.received_hash


\* C36: an incomplete frame, one that filled the buffer included, does not block
\* reception for ever: totalDataReceived returns to 0 in the end, also when the host
\* goes on writing chunks at intervals shorter than the receive timeout.
C36_FullBufferCleared ==
    BufferFull ~> (totalDataReceived = 0)


\* C39: the two elapsed-time tests are differences in unsigned arithmetic.  The
\* value each test compares is the number of ticks since the stamp modulo the width
\* of the counter, and while fewer ticks than the width have passed since the stamp
\* the test is true exactly when more ticks than its threshold have passed, also when
\* the counter has wrapped in between.
C39_ElapsedModuloWidth ==
    /\ [](/\ Elapsed(lastReceiveTime) = (now - lastReceiveTime) % CLOCK_MOD
          /\ Elapsed(lastDisplayUpdate) = (now - lastDisplayUpdate) % CLOCK_MOD)
    /\ [][(pc = "timeout" /\ pc' # pc /\ now - lastReceiveTime < CLOCK_MOD)
            => (pc' = "recheck"
                  <=> (receivingMultipart /\ now - lastReceiveTime > RECEIVE_TIMEOUT))]_vars
    /\ [][(pc = "schedule" /\ pc' # pc /\ now - lastDisplayUpdate < CLOCK_MOD)
            => (timeBasedUpdate' <=> now - lastDisplayUpdate > DISPLAY_UPDATE_INTERVAL)]_vars

\* C39 witness: the receive timeout has fired on a chunk stamped before the counter
\* wrapped, tested after it wrapped.
C39_TimeoutAcrossWrap ==
    /\ pc = "recheck"
    /\ lastReceiveTime < CLOCK_MOD
    /\ now >= CLOCK_MOD
    /\ millis < lastReceiveTime
    /\ now - lastReceiveTime < CLOCK_MOD

=============================================================================
